---- MODULE Spec2Model ----
(***************************************************************************)
(* Lil-Cheetah (src/src/index.js): route pattern compiler, matcher and     *)
(* request dispatch pipeline of class LilCheetah.                          *)
(*                                                                         *)
(* A JavaScript string is modelled as a sequence of one-character strings, *)
(* so "/users/:id" is <<"/","u",...>>.  Indices are 0-based as in the      *)
(* source; CharAt/substring translate to TLA+'s 1-based sequences.         *)
(***************************************************************************)
EXTENDS Integers, Sequences, FiniteSets, TLC

VARIABLES
    \* -- static-function calls (parseRoutePattern / matchRoutePattern / exec)
    stage,            \* "input" | "compiled" | "matched" | "extracted"
    in_pattern,       \* the pattern string handed to parseRoutePattern
    in_url,           \* the url string handed to matchRoutePattern
    compiled,         \* result of parseRoutePattern(in_pattern)
    matches,          \* result of matchRoutePattern(in_url, [route])
    parameters,       \* result of exec(clean(in_url), compiled)
    \* -- the LilCheetah instance
    middlewares,      \* this.middlewares
    base_middlewares, \* this.base_middlewares
    routes,           \* this.routes
    next_id,          \* identity of the next handler function object created
    \* -- one handleRequest activation (closure) per request
    phase,            \* "idle" | "notfound" | "fast" | "chain"
    req_method,       \* request.method
    req_url,          \* request.url
    req_path,         \* request.path
    route_set,        \* const route_set = this.findRoute(...)
    handlers,         \* const handlers = [...middlewares, ...route_handlers]
    handler_index,    \* let handler_index
    status,           \* per invoked handler: where its activation stands
    log               \* what the request has observed, in order

callVars == <<stage, in_pattern, in_url, compiled, matches, parameters>>
appVars  == <<middlewares, base_middlewares, routes, next_id>>
reqVars  == <<phase, req_method, req_url, req_path, route_set,
              handlers, handler_index, status, log>>
vars     == <<callVars, appVars, reqVars>>

-----------------------------------------------------------------------------
(* Constants of the source *)

SEPARATOR == <<"/">>

STATIC    == "static"
PARAMETER == "parameter"
ANY       == "any"
OPTIONAL  == "optional"

\* the value of url_pieces[index] past the end of the array
undefined == <<"undefined">>

-----------------------------------------------------------------------------
(* JavaScript string primitives *)

Min(a, b) == IF a < b THEN a ELSE b
Max(a, b) == IF a > b THEN a ELSE b

\* str.charCodeAt(i): NaN outside the string
CharAt(str, i) == IF i >= 0 /\ i < Len(str) THEN str[i + 1] ELSE "NaN"

\* str.substring(from, to): arguments clamped to [0, length], swapped if from > to
substring(str, from, to) ==
    LET a == Max(0, Min(from, Len(str)))
        b == Max(0, Min(to, Len(str)))
    IN  SubSeq(str, Min(a, b) + 1, Max(a, b))

\* str.substring(from)
substringFrom(str, from) == substring(str, from, Len(str))

RECURSIVE StripLeading(_)
StripLeading(str) ==
    IF CharAt(str, 0) = "/" THEN StripLeading(substringFrom(str, 1)) ELSE str

RECURSIVE StripTrailing(_)
StripTrailing(str) ==
    IF CharAt(str, Len(str) - 1) = "/"
    THEN StripTrailing(substring(str, 0, Len(str) - 1))
    ELSE str

\* one leading and one trailing separator dropped, not all of them
cleanOnce(str) ==
    IF str = SEPARATOR THEN str
    ELSE LET a == IF CharAt(str, 0) = "/" THEN substringFrom(str, 1) ELSE str
             b == IF CharAt(a, Len(a) - 1) = "/"
                  THEN substring(a, 0, Len(a) - 1) ELSE a
         IN  IF b = <<>> THEN SEPARATOR ELSE b

clean(str) ==
    IF str = SEPARATOR THEN str
    ELSE LET s == StripTrailing(StripLeading(str))
         IN  IF s = <<>> THEN SEPARATOR ELSE s

\* String.prototype.split(SEPARATOR)
RECURSIVE StringSplit(_)
StringSplit(str) ==
    IF \E i \in 1..Len(str) : str[i] = "/"
    THEN LET i == CHOOSE k \in 1..Len(str) :
                     str[k] = "/" /\ \A j \in 1..(k - 1) : str[j] # "/"
         IN  <<SubSeq(str, 1, i - 1)>> \o StringSplit(SubSeq(str, i + 1, Len(str)))
    ELSE <<str>>

split(str) ==
    LET s == clean(str)
    IN  IF s = SEPARATOR THEN <<SEPARATOR>> ELSE StringSplit(s)

-----------------------------------------------------------------------------
(* Pattern compiler *)

Segment(original, type, value) ==
    [original |-> original, type |-> type, value |-> value]

\* while (index < pattern_length && pattern.charCodeAt(index) !== SLASH) index++
RECURSIVE ScanToSlash(_, _, _)
ScanToSlash(pattern, pattern_length, index) ==
    IF index < pattern_length /\ CharAt(pattern, index) # "/"
    THEN ScanToSlash(pattern, pattern_length, index + 1)
    ELSE index

\* the scan never records the '?' it meets
LastQuestionMarkForgotten(pattern, from, to) == 0

\* reset_index after the parameter scan: the last '?' met in [from, to), else 0
LastQuestionMark(pattern, from, to) ==
    LET qs == {i \in from..(to - 1) : CharAt(pattern, i) = "?"}
    IN  IF qs = {} THEN 0 ELSE CHOOSE i \in qs : \A j \in qs : j <= i

\* the body of the for loop; index, pattern and pattern_length are the loop state
RECURSIVE ParseLoop(_, _, _, _, _)
ParseLoop(original, pattern, pattern_length, index, result) ==
    IF ~(index < pattern_length) THEN result
    ELSE IF CharAt(pattern, index) = ":" THEN
        LET param_index == index + 1
            end         == ScanToSlash(pattern, pattern_length, index)
            hasQ        == \E i \in index..(end - 1) : CharAt(pattern, i) = "?"
            reset_index == LastQuestionMark(pattern, index, end)
            seg == Segment(original,
                           IF hasQ THEN OPTIONAL ELSE PARAMETER,
                           substring(pattern, param_index,
                                     IF reset_index = 0 THEN end ELSE reset_index))
        IN  ParseLoop(original, substringFrom(pattern, end),
                      pattern_length - end, 1, Append(result, seg))
    ELSE IF CharAt(pattern, index) = "*" THEN
        ParseLoop(original, pattern, pattern_length, index + 1,
                  Append(result,
                         Segment(original, ANY, substringFrom(pattern, index))))
    ELSE
        LET start_index == index
            end == ScanToSlash(pattern, pattern_length, index)
            seg == Segment(original, STATIC, substring(pattern, start_index, end))
        IN  ParseLoop(original, substringFrom(pattern, end),
                      pattern_length - end, 1, Append(result, seg))

parseRoutePattern(pattern) ==
    LET cleaned == clean(pattern)
    IN  IF cleaned = SEPARATOR
        THEN <<Segment(pattern, STATIC, cleaned)>>
        ELSE ParseLoop(pattern, cleaned, Len(cleaned), 0, <<>>)

-----------------------------------------------------------------------------
(* Matcher *)

Route(pattern, hs) == [pattern |-> pattern, handlers |-> hs]

\* url_pieces[index]
PieceAt(url_pieces, index) ==
    IF index >= 0 /\ index < Len(url_pieces) THEN url_pieces[index + 1] ELSE undefined

isMatch(url_piece, pattern_piece) ==
    \/ (pattern_piece.value = url_piece /\ pattern_piece.type = STATIC)
    \/ IF url_piece = SEPARATOR
       THEN pattern_piece.type = OPTIONAL \/ pattern_piece.type = ANY
       ELSE pattern_piece.type # STATIC

isFullMatch(url_pieces, pattern) ==
    \A index \in 0..(Len(pattern) - 1) :
        isMatch(PieceAt(url_pieces, index), pattern[index + 1])

\* the condition of the if statement in the loop of matchRoutePattern
RouteAccepts(url_pieces, pattern) ==
    LET pieces         == Len(url_pieces)
        pattern_length == Len(pattern)
        equal_length   == pieces = pattern_length
        pattern_less_but_any ==
            pattern_length < pieces /\ pattern[pattern_length].type = ANY
        pattern_more_but_optional ==
            pattern_length > pieces /\ pattern[pattern_length].type = OPTIONAL
    IN  /\ (equal_length \/ pattern_less_but_any \/ pattern_more_but_optional)
        /\ isFullMatch(url_pieces, pattern)

\* the for loop: it returns at the first route that passes
RECURSIVE MatchLoop(_, _, _)
MatchLoop(url_pieces, route_sets, index) ==
    IF ~(index < Len(route_sets)) THEN <<>>
    ELSE IF RouteAccepts(url_pieces, route_sets[index + 1].pattern)
         THEN <<route_sets[index + 1]>>
         ELSE MatchLoop(url_pieces, route_sets, index + 1)

matchRoutePattern(url, route_sets) ==
    MatchLoop(split(clean(url)), route_sets, 0)

\* parameters[name] = value on a map held as a set of <<name, value>> pairs
SetParameter(params, name, value) ==
    {p \in params : p[1] # name} \cup {<<name, value>>}

\* pattern_pieces.forEach((pattern_piece, index) => ...)
RECURSIVE ExecLoop(_, _, _, _)
ExecLoop(url_pieces, pattern_pieces, index, params) ==
    IF ~(index < Len(pattern_pieces)) THEN params
    ELSE LET url_piece == PieceAt(url_pieces, index)
             truthy    == url_piece # undefined /\ url_piece # <<>>
         IN  ExecLoop(url_pieces, pattern_pieces, index + 1,
                 IF url_piece = SEPARATOR THEN params
                 ELSE IF truthy
                      THEN SetParameter(params, pattern_pieces[index + 1].value,
                                        url_piece)
                      ELSE params)

exec(url, pattern_pieces) == ExecLoop(split(url), pattern_pieces, 0, {})

\* findRoute on route table rts: false, {params, handlers}, or a thrown RangeError
NoRoute == [kind |-> "false", params |-> {}, handlers |-> <<>>]

\* the wildcard-method routes put ahead of the method's own
findRouteWildcardFirst(rts, method, url) ==
    LET cleaned == clean(url)
        all  == rts["*"] \o rts[method]
        mtch == matchRoutePattern(cleaned, all)
    IN  IF Len(mtch) = 0 THEN NoRoute
        ELSE [kind |-> "route",
              params |-> exec(cleaned, mtch[1].pattern),
              handlers |-> mtch[1].handlers]

findRoute(rts, method, url) ==
    LET cleaned == clean(url)
        method_specific_routes == rts[method]
        wildcard_routes        == rts["*"]
        all  == method_specific_routes \o wildcard_routes
        mtch == matchRoutePattern(cleaned, all)
    IN  IF Len(mtch) = 0 THEN NoRoute
        ELSE IF Len(mtch) = 1
             THEN [kind |-> "route",
                   params |-> exec(cleaned, mtch[1].pattern),
                   handlers |-> mtch[1].handlers]
             ELSE [kind |-> "RangeError", params |-> {}, handlers |-> <<>>]

-----------------------------------------------------------------------------
(* Bounds and input sets *)

MaxPatLen    == 5   \* SpecParse: longest pattern string
MaxParts     == 3   \* SpecMatch: most '/'-separated parts of a pattern
MaxPieces    == 3   \* SpecMatch: most '/'-separated pieces of a url
MaxFunctions == 3   \* Spec: handler functions ever registered
MaxRoutes    == 2   \* Spec: routes ever registered
MaxUrlLen    == 5   \* SpecLookup: longest path string
MaxExtra     == 2   \* SpecLookup: most separators added at either end of a path
MaxEvents    == 5   \* Spec: events observed per request

Alphabet == {"/", ":", "?", "*", "a", "b"}

StringsUpTo(n) == UNION {[1..k -> Alphabet] : k \in 0..n}

RECURSIVE Join(_)
Join(parts) ==
    IF Len(parts) = 0 THEN <<>>
    ELSE IF Len(parts) = 1 THEN parts[1]
    ELSE parts[1] \o <<"/">> \o Join(Tail(parts))

\* "/" followed by the parts joined by "/"
Slashed(parts) == <<"/">> \o Join(parts)

PatternParts == {<<"u">>, <<":", "i">>, <<":", "j", "?">>, <<"*">>, <<>>}
UrlPieces    == {<<"u">>, <<"4">>, <<>>}

SeqsUpTo(S, n) == UNION {[1..k -> S] : k \in 1..n}

MatchPatterns == {Slashed(ps) : ps \in SeqsUpTo(PatternParts, MaxParts)}
MatchUrls     == {Slashed(ps) : ps \in SeqsUpTo(UrlPieces, MaxPieces)}

-----------------------------------------------------------------------------
(* Calls of the static functions *)

CallsIdle ==
    /\ stage = "input"
    /\ in_pattern = SEPARATOR
    /\ in_url = SEPARATOR
    /\ compiled = <<>>
    /\ matches = <<>>
    /\ parameters = {}

\* const parsed_pattern = LilCheetah.parseRoutePattern(pattern)
Compile ==
    /\ stage = "input"
    /\ compiled' = parseRoutePattern(in_pattern)
    /\ stage' = "compiled"
    /\ UNCHANGED <<in_pattern, in_url, matches, parameters, appVars, reqVars>>

\* const matches = LilCheetah.matchRoutePattern(url, routes), url cleaned by findRoute
Match ==
    /\ stage = "compiled"
    /\ matches' = matchRoutePattern(clean(in_url), <<Route(compiled, <<>>)>>)
    /\ stage' = "matched"
    /\ UNCHANGED <<in_pattern, in_url, compiled, parameters, appVars, reqVars>>

\* params: LilCheetah.exec(url, match.pattern)
Exec ==
    /\ stage = "matched"
    /\ Len(matches) = 1
    /\ parameters' = exec(clean(in_url), matches[1].pattern)
    /\ stage' = "extracted"
    /\ UNCHANGED <<in_pattern, in_url, compiled, matches, appVars, reqVars>>

-----------------------------------------------------------------------------
(* The LilCheetah instance *)

Requests     == {"r1", "r2"}
Methods      == {"GET", "POST"}          \* request.method
RouteMethods == {"GET", "*"}             \* get(...) and all(...)
Buckets      == Methods \cup RouteMethods

DispatchPatterns == {<<"/", "u", "/", ":", "i", "?">>}
DispatchUrls     == {<<"/", "x">>, <<"/", "/", "u", "/", "4", "/", "?", "q">>}
UsePaths         == {<<"/", "u">>, <<"u">>}
UserErrors       == {"e1"}

\* n new handler functions, each a distinct function object
NewFunctions(n) == [k \in 1..n |-> next_id + k - 1]

RouteCount == Len(routes["GET"]) + Len(routes["POST"]) + Len(routes["*"])

appendSeparator(path) == IF CharAt(path, 0) = "/" THEN path ELSE SEPARATOR \o path

\* this.base_middlewares[path] || []
BaseBucket(path) ==
    IF path \in DOMAIN base_middlewares THEN base_middlewares[path] ELSE <<>>

\* the chain of a request in flight read from the live global list
UseReachesInFlight(n) ==
    /\ next_id + n - 1 <= MaxFunctions
    /\ middlewares' = middlewares \o NewFunctions(n)
    /\ next_id' = next_id + n
    /\ handlers' = [r \in Requests |->
           IF phase[r] = "chain"
           THEN middlewares' \o route_set[r].handlers
           ELSE handlers[r]]
    /\ UNCHANGED <<base_middlewares, routes, callVars, phase, req_method, req_url,
                   req_path, route_set, handler_index, status, log>>

\* use(fn, ...handlers): n functions in all
Use(n) ==
    /\ next_id + n - 1 <= MaxFunctions
    /\ middlewares' = middlewares \o NewFunctions(n)
    /\ next_id' = next_id + n
    /\ UNCHANGED <<base_middlewares, routes, callVars, reqVars>>

\* use('/', ...handlers)
UseSeparator(n) ==
    /\ next_id + n - 1 <= MaxFunctions
    /\ middlewares' = middlewares \o NewFunctions(n)
    /\ next_id' = next_id + n
    /\ UNCHANGED <<base_middlewares, routes, callVars, reqVars>>

\* a path-scoped registration that also reaches the global list
UsePathAlsoGlobal(path, n) ==
    /\ next_id + n - 1 <= MaxFunctions
    /\ LET key == appendSeparator(path)
       IN  base_middlewares' =
               [k \in DOMAIN base_middlewares \cup {key} |->
                   IF k = key THEN BaseBucket(key) \o NewFunctions(n)
                   ELSE base_middlewares[k]]
    /\ middlewares' = middlewares \o NewFunctions(n)
    /\ next_id' = next_id + n
    /\ UNCHANGED <<routes, callVars, reqVars>>

\* use(path, ...handlers) with any other path string
UsePath(path, n) ==
    /\ next_id + n - 1 <= MaxFunctions
    /\ LET key == appendSeparator(path)
       IN  base_middlewares' =
               [k \in DOMAIN base_middlewares \cup {key} |->
                   IF k = key THEN BaseBucket(key) \o NewFunctions(n)
                   ELSE base_middlewares[k]]
    /\ next_id' = next_id + n
    /\ UNCHANGED <<middlewares, routes, callVars, reqVars>>

addRoute(method, pattern, n) ==
    /\ RouteCount < MaxRoutes
    /\ next_id + n - 1 <= MaxFunctions
    /\ routes' = [routes EXCEPT ![method] =
                     Append(@, Route(parseRoutePattern(pattern), NewFunctions(n)))]
    /\ next_id' = next_id + n
    /\ UNCHANGED <<middlewares, base_middlewares, callVars, reqVars>>

-----------------------------------------------------------------------------
(* Dispatch *)

\* parseUrl on a string that starts with '/' and holds no white space
parseUrl(url) ==
    LET qs == {i \in 0..(Len(url) - 1) : CharAt(url, i) = "?"}
    IN  IF qs = {}
        THEN [pathname |-> url, query |-> undefined, search |-> undefined]
        ELSE LET index == CHOOSE i \in qs : \A j \in qs : i <= j
             IN  [pathname |-> substring(url, 0, index),
                  query    |-> substringFrom(url, index + 1),
                  search   |-> substringFrom(url, index)]

\* one observation of a request: the not-found response, a handler invoked with
\* (request, response, arg), an error raised by a handler, the Error Handler
\* invoked with (error, request, response)
Event(ev, pos, handler, arg, request) ==
    [ev |-> ev, pos |-> pos, handler |-> handler, arg |-> arg, request |-> request]

\* the not-found case routed through the Error Handler
respondNotFoundAsError(lg, request) ==
    Append(lg, Event("error_handler", -1, 0, "404", request))

\* response.end('404')
respondNotFound(lg, request) == Append(lg, Event("end", -1, 0, "404", request))

handleError(lg, error, request) ==
    Append(lg, Event("error_handler", -1, 0, error, request))

\* the bound arguments forwarded in the order they arrive
catchErrorUnswapped(lg, request, error) ==
    Append(lg, Event("error_handler", -1, 0, request, error))

catchError(lg, request, error) == handleError(lg, error, request)

\* the route's handlers put ahead of the global middleware
EffectiveChainRouteFirst(mws, route_handlers) == route_handlers \o mws

\* const handlers = [...middlewares, ...route_handlers]
EffectiveChain(mws, route_handlers) == mws \o route_handlers

\* the handlers of request r that are on the call stack
Running(r) == {p \in 1..Len(status[r]) : status[r][p] = "running"}

\* nothing of the program is on the call stack: a new task may start
Quiescent == \A r \in Requests : Running(r) = {}

Top(r) == CHOOSE p \in Running(r) : \A q \in Running(r) : q <= p

\* handler p (1-based) of r's chain may act: synchronously when it is the
\* innermost running handler, or from a callback it left behind
OnStack(r, p)  == p \in Running(r) /\ p = Top(r)
Callback(r, p) == p \in 1..Len(status[r]) /\ p \notin Running(r) /\ Quiescent

\* handler p was handed `next` and not undefined
HoldsNext(r, p) == p # Len(handlers[r])

Room(r, n) == Len(log[r]) + n <= MaxEvents

\* the cursor kept on the instance instead of in the closure
loopSharedCursor(r, hs, idx, lg, st) ==
    IF idx < Len(hs)
    THEN /\ handler_index' = [q \in Requests |-> idx + 1]
         /\ status' = [status EXCEPT ![r] = Append(st, "running")]
         /\ log' = [log EXCEPT ![r] =
                Append(lg, Event("invoke", idx, hs[idx + 1],
                                 IF idx = Len(hs) - 1 THEN "undefined" ELSE "next",
                                 r))]
    ELSE /\ handler_index' = [q \in Requests |-> idx + 1]
         /\ status' = [status EXCEPT ![r] = st]
         /\ log' = [log EXCEPT ![r] =
                Append(lg, Event("error_handler", -1, 0, "TypeError", r))]

\* the cursor read but not advanced
loopCursorStuck(r, hs, idx, lg, st) ==
    IF idx < Len(hs)
    THEN /\ handler_index' = [handler_index EXCEPT ![r] = idx]
         /\ status' = [status EXCEPT ![r] = Append(st, "running")]
         /\ log' = [log EXCEPT ![r] =
                Append(lg, Event("invoke", idx, hs[idx + 1],
                                 IF idx = Len(hs) - 1 THEN "undefined" ELSE "next",
                                 r))]
    ELSE /\ handler_index' = [handler_index EXCEPT ![r] = idx]
         /\ status' = [status EXCEPT ![r] = st]
         /\ log' = [log EXCEPT ![r] =
                Append(lg, Event("error_handler", -1, 0, "TypeError", r))]

\* loop() of request r, entered with cursor idx, log lg and statuses st
loop(r, hs, idx, lg, st) ==
    IF idx < Len(hs)
    THEN /\ handler_index' = [handler_index EXCEPT ![r] = idx + 1]
         /\ status' = [status EXCEPT ![r] = Append(st, "running")]
         /\ log' = [log EXCEPT ![r] =
                Append(lg, Event("invoke", idx, hs[idx + 1],
                                 IF idx = Len(hs) - 1 THEN "undefined" ELSE "next",
                                 r))]
    ELSE \* handlers[handler_index++] is undefined: calling it throws a TypeError
         /\ handler_index' = [handler_index EXCEPT ![r] = idx + 1]
         /\ status' = [status EXCEPT ![r] = st]
         /\ log' = [log EXCEPT ![r] = handleError(lg, "TypeError", r)]

handleRequest(r, method, url) ==
    /\ phase[r] = "idle"
    /\ Quiescent
    /\ LET parsed_url == parseUrl(url)
           rs == findRoute(routes, method, parsed_url.pathname)
       IN  /\ req_method' = [req_method EXCEPT ![r] = method]
           /\ req_url' = [req_url EXCEPT ![r] = url]
           /\ route_set' = [route_set EXCEPT ![r] = rs]
           /\ CASE rs.kind = "RangeError" ->
                   \* the RangeError leaves handleRequest
                   /\ phase' = [phase EXCEPT ![r] = "RangeError"]
                   /\ UNCHANGED <<req_path, handlers, handler_index, status, log>>
                [] rs.kind = "false" ->
                   /\ phase' = [phase EXCEPT ![r] = "notfound"]
                   /\ log' = [log EXCEPT ![r] = respondNotFound(@, r)]
                   /\ UNCHANGED <<req_path, handlers, handler_index, status>>
                [] rs.kind = "route" /\ Len(middlewares) = 0
                                     /\ Len(rs.handlers) = 1 ->
                   \* line 172 reads `handlers`, a const declared at line 194:
                   \* a ReferenceError, caught at line 179
                   /\ phase' = [phase EXCEPT ![r] = "fast"]
                   /\ req_path' = [req_path EXCEPT ![r] = parsed_url.pathname]
                   /\ log' = [log EXCEPT ![r] = handleError(@, "ReferenceError", r)]
                   /\ UNCHANGED <<handlers, handler_index, status>>
                [] OTHER ->
                   /\ phase' = [phase EXCEPT ![r] = "chain"]
                   /\ req_path' = [req_path EXCEPT ![r] = parsed_url.pathname]
                   /\ handlers' = [handlers EXCEPT ![r] =
                          EffectiveChain(middlewares, rs.handlers)]
                   /\ loop(r, EffectiveChain(middlewares, rs.handlers), 0,
                           log[r], <<>>)
    /\ UNCHANGED <<callVars, appVars>>

\* a handler, or a callback it left behind, calls next() with no (or a falsy) error
CallNext(r, p) ==
    /\ OnStack(r, p) \/ Callback(r, p)
    /\ HoldsNext(r, p)
    /\ Room(r, 1)
    /\ loop(r, handlers[r], handler_index[r], log[r], status[r])
    /\ UNCHANGED <<phase, req_method, req_url, req_path, route_set, handlers,
                   callVars, appVars>>

\* next(error): if (error) return this.handleError(error, request, response)
next(lg, error, request) == handleError(lg, error, request)

CallNextError(r, p, e) ==
    /\ OnStack(r, p) \/ Callback(r, p)
    /\ HoldsNext(r, p)
    /\ Room(r, 2)
    /\ log' = [log EXCEPT ![r] =
           next(Append(@, Event("next", p - 1, handlers[r][p], e, r)), e, r)]
    /\ UNCHANGED <<phase, req_method, req_url, req_path, route_set, handlers,
                   handler_index, status, callVars, appVars>>

\* the handler throws: caught by the try of loop (line 217)
Throw(r, p, e) ==
    /\ OnStack(r, p)
    /\ Room(r, 2)
    /\ status' = [status EXCEPT ![r][p] = "threw"]
    /\ log' = [log EXCEPT ![r] =
           handleError(Append(@, Event("throw", p - 1, handlers[r][p], e, r)), e, r)]
    /\ UNCHANGED <<phase, req_method, req_url, req_path, route_set, handlers,
                   handler_index, callVars, appVars>>

\* the handler returns; a result with a catch function gets catchError attached
Return(r, p, thenable) ==
    /\ OnStack(r, p)
    /\ status' = [status EXCEPT ![r][p] = IF thenable THEN "pending" ELSE "returned"]
    /\ UNCHANGED <<phase, req_method, req_url, req_path, route_set, handlers,
                   handler_index, log, callVars, appVars>>

\* the returned thenable rejects: the attached catchError runs
Reject(r, p, e) ==
    /\ p \in 1..Len(status[r])
    /\ status[r][p] = "pending"
    /\ Quiescent
    /\ Room(r, 2)
    /\ status' = [status EXCEPT ![r][p] = "rejected"]
    /\ log' = [log EXCEPT ![r] =
           catchError(Append(@, Event("reject", p - 1, handlers[r][p], e, r)), r, e)]
    /\ UNCHANGED <<phase, req_method, req_url, req_path, route_set, handlers,
                   handler_index, callVars, appVars>>

-----------------------------------------------------------------------------
(* Specifications *)

AppInit ==
    /\ middlewares = <<>>
    /\ base_middlewares = <<>>
    /\ routes = [m \in Buckets |-> <<>>]
    /\ next_id = 1

ReqInit ==
    /\ phase = [r \in Requests |-> "idle"]
    /\ req_method = [r \in Requests |-> ""]
    /\ req_url = [r \in Requests |-> <<>>]
    /\ req_path = [r \in Requests |-> <<>>]
    /\ route_set = [r \in Requests |-> NoRoute]
    /\ handlers = [r \in Requests |-> <<>>]
    /\ handler_index = [r \in Requests |-> 0]
    /\ status = [r \in Requests |-> <<>>]
    /\ log = [r \in Requests |-> <<>>]

Init == CallsIdle /\ AppInit /\ ReqInit

Positions == 1..MaxFunctions

Register ==
    \/ \E n \in 1..MaxFunctions : Use(n)
    \/ \E n \in 1..MaxFunctions : UseSeparator(n)
    \/ \E path \in UsePaths, n \in 1..MaxFunctions : UsePath(path, n)
    \/ \E method \in RouteMethods, pattern \in DispatchPatterns,
          n \in 0..MaxFunctions : addRoute(method, pattern, n)

\* requests are named in the order they arrive
Arrival == <<"r1", "r2">>
Arrives(r) == \E i \in 1..Len(Arrival) :
                 /\ Arrival[i] = r
                 /\ \A j \in 1..(i - 1) : phase[Arrival[j]] # "idle"

Serve(rs) ==
    \/ \E r \in rs, method \in Methods, url \in DispatchUrls :
          Arrives(r) /\ handleRequest(r, method, url)
    \/ \E r \in rs, p \in Positions : CallNext(r, p)
    \/ \E r \in rs, p \in Positions, e \in UserErrors : CallNextError(r, p, e)
    \/ \E r \in rs, p \in Positions, e \in UserErrors : Throw(r, p, e)
    \/ \E r \in rs, p \in Positions, t \in BOOLEAN : Return(r, p, t)
    \/ \E r \in rs, p \in Positions, e \in UserErrors : Reject(r, p, e)

\* one request, with registration going on at any time
Next == Register \/ Serve({"r1"})

Spec == Init /\ [][Next]_vars

\* two requests in flight against a table set up before serving began:
\* use(f1) or not, then get('/u/:i?', f2) and all('/u/:i?', f3)
InitServing ==
    /\ CallsIdle
    /\ middlewares \in {<<>>, <<1>>}
    /\ base_middlewares = <<>>
    /\ routes = [m \in Buckets |->
           IF m = "GET" THEN <<Route(parseRoutePattern(<<"/", "u", "/", ":", "i", "?">>), <<2>>)>>
           ELSE IF m = "*" THEN <<Route(parseRoutePattern(<<"/", "u", "/", ":", "i", "?">>), <<3>>)>>
           ELSE <<>>]
    /\ next_id = 4
    /\ ReqInit

NextServing == Serve(Requests)

SpecServing == InitServing /\ [][NextServing]_vars

\* parseRoutePattern on every string up to MaxPatLen
InitParse ==
    /\ stage = "input"
    /\ in_pattern \in StringsUpTo(MaxPatLen)
    /\ in_url = SEPARATOR
    /\ compiled = <<>>
    /\ matches = <<>>
    /\ parameters = {}
    /\ AppInit /\ ReqInit

SpecParse == InitParse /\ [][Compile]_vars

\* compile, match, extract on every pattern and url built from the parts
InitMatch ==
    /\ stage = "input"
    /\ in_pattern \in MatchPatterns
    /\ in_url \in MatchUrls
    /\ compiled = <<>>
    /\ matches = <<>>
    /\ parameters = {}
    /\ AppInit /\ ReqInit

NextMatch == Compile \/ Match \/ Exec

SpecMatch == InitMatch /\ [][NextMatch]_vars

\* findRoute(method, url) on a table built by get(...) and all(...)
LookupPatterns == {<<"/", "u", "/", ":", "i", "?">>, <<"/", ":", "i">>, <<"/", "*">>}
LookupAlphabet == {"/", "u"}
LookupUrls     == UNION {[1..k -> LookupAlphabet] : k \in 0..MaxUrlLen}

FindRoute(method) ==
    /\ stage = "input"
    /\ stage' = "found"
    /\ req_method' = [req_method EXCEPT !["r1"] = method]
    /\ route_set' = [route_set EXCEPT !["r1"] = findRoute(routes, method, in_url)]
    /\ UNCHANGED <<in_pattern, in_url, compiled, matches, parameters, appVars,
                   phase, req_url, req_path, handlers, handler_index, status, log>>

InitLookup ==
    /\ stage = "input"
    /\ in_pattern = SEPARATOR
    /\ in_url \in LookupUrls
    /\ compiled = <<>>
    /\ matches = <<>>
    /\ parameters = {}
    /\ AppInit /\ ReqInit

NextLookup ==
    \/ \E method \in RouteMethods, pattern \in LookupPatterns, n \in {1, 2} :
          stage = "input" /\ addRoute(method, pattern, n)
    \/ \E method \in Methods : FindRoute(method)

SpecLookup == InitLookup /\ [][NextLookup]_vars

-----------------------------------------------------------------------------
(* Vocabulary of the properties *)

\* the lookup list of a method: its routes, then the wildcard-method routes
Lookup(rts, method) == rts[method] \o rts["*"]

\* the pieces of the path a request asks for
RequestPieces(url) == split(clean(parseUrl(url).pathname))

\* the routes of the lookup list that fully match the pieces
FullMatches(rts, method, pieces) ==
    {i \in 1..Len(Lookup(rts, method)) :
        RouteAccepts(pieces, Lookup(rts, method)[i].pattern)}

EventsOf(r, kinds) == SelectSeq(log[r], LAMBDA e : e.ev \in kinds)

\* the handlers request r has invoked, in order
Invoked(r) == [i \in 1..Len(EventsOf(r, {"invoke"})) |->
                  EventsOf(r, {"invoke"})[i].handler]

IsPrefix(s, t) == Len(s) <= Len(t) /\ SubSeq(t, 1, Len(s)) = s

ErrorOrigins == {"throw", "reject", "next"}

\* an empty slot of the path: the separator placeholder, or the empty string
\* that adjacent separators leave
EmptyPiece(piece) == piece = SEPARATOR \/ piece = <<>>

-----------------------------------------------------------------------------
(* C1: when more than one route of the lookup list for the request's method
   fully matches the path, the lookup raises the RangeError instead of
   returning a route. *)
C1_AmbiguousLookupRaises ==
    [][\A r \in Requests :
          (/\ phase[r] = "idle"
           /\ phase'[r] # "idle"
           /\ Cardinality(FullMatches(routes, req_method'[r],
                                      RequestPieces(req_url'[r]))) > 1)
          => phase'[r] = "RangeError"]_vars

(* C2: the parameter map of a matched (path, pattern) pair holds exactly one
   entry name -> piece for each Parameter, Optional or Any segment aligned with
   a non-empty piece, and nothing for Static segments. *)
C2_ParametersOnlyForNonStatic ==
    stage = "extracted" =>
        LET pieces == split(clean(in_url))
        IN  parameters =
                {<<compiled[i].value, pieces[i]>> :
                    i \in {j \in 1..Min(Len(compiled), Len(pieces)) :
                              /\ compiled[j].type # STATIC
                              /\ ~EmptyPiece(pieces[j])}}

(* C3: on the fast path (no global middleware, one route handler) the route
   handler is invoked exactly once, and the Error Handler is invoked only
   after that handler threw or its result rejected. *)
C3_FastPathInvokesHandlerOnce ==
    \A r \in Requests :
        phase[r] = "fast" =>
            /\ Invoked(r) = route_set[r].handlers
            /\ \A i \in 1..Len(log[r]) :
                   log[r][i].ev = "error_handler" =>
                       i > 1 /\ log[r][i - 1].ev \in {"throw", "reject"}

\* the step that starts the chain of a request
C4_ChainIsMiddlewareThenRoute ==
    \A r \in Requests :
        phase[r] = "idle" /\ phase'[r] = "chain" =>
            /\ handlers'[r] = middlewares \o route_set'[r].handlers
            /\ \E i \in FullMatches(routes, req_method'[r],
                                    RequestPieces(req_url'[r])) :
                   Lookup(routes, req_method'[r])[i].handlers =
                       route_set'[r].handlers

\* use() only ever appends to the global middleware list
C4_UseAppends == IsPrefix(middlewares, middlewares')

C4_InvokedInChainOrder ==
    \A r \in Requests :
        phase[r] = "chain" =>
            /\ IsPrefix(Invoked(r), handlers[r])
            /\ \A i \in 1..Len(EventsOf(r, {"invoke"})) :
                   EventsOf(r, {"invoke"})[i].request = r

(* C4: the effective chain of a matched request is the global middleware list
   as use() built it followed by the handlers of a route of the request's
   lookup list, and the handlers invoked so far are a prefix of that chain: no
   route handler runs before every global middleware has, in use() order. *)
C4_MiddlewareBeforeRouteHandlers ==
    /\ []C4_InvokedInChainOrder
    /\ [][C4_ChainIsMiddlewareThenRoute /\ C4_UseAppends]_vars

C4_Witness ==
    /\ phase["r1"] = "chain"
    /\ req_method["r1"] = "POST"
    /\ Len(handlers["r1"]) = 3
    /\ Len(route_set["r1"].handlers) = 1
    /\ Invoked("r1") = handlers["r1"]

(* C5: a request whose method and path match no registered route observes the
   not-found response exactly once and nothing else: no Error Handler, no
   global middleware, no route handler. *)
C5_NotFoundOnly404 ==
    \A r \in Requests :
        (\/ phase[r] = "notfound"
         \/ (/\ phase[r] # "idle"
             /\ FullMatches(routes, req_method[r], RequestPieces(req_url[r])) = {}))
        => log[r] = <<Event("end", -1, 0, "404", r)>>

C5_Witness ==
    /\ phase["r1"] = "notfound"
    /\ RouteCount > 0
    /\ Len(middlewares) > 0
    /\ req_method["r1"] = "GET"

(* C6: every error a handler raises -- thrown, rejected by its returned
   thenable, or passed to the continuation -- is followed at once by the Error
   Handler invoked with that same error and that request. *)
C6_ErrorsReachErrorHandler ==
    \A r \in Requests :
        \A i \in 1..Len(log[r]) :
            log[r][i].ev \in ErrorOrigins =>
                /\ i < Len(log[r])
                /\ log[r][i + 1] = Event("error_handler", -1, 0, log[r][i].arg, r)

C6_Witness ==
    /\ \E i \in 1..Len(log["r1"]) : log["r1"][i].ev = "reject"
    /\ \E i \in 1..Len(log["r1"]) : log["r1"][i].ev = "next"

\* a pattern as the pattern syntax means it: named, separator-free segments
\* (or the root segment alone), and a wildcard only in last place
ProperPattern(pattern) ==
    \/ (Len(pattern) = 1 /\ pattern[1].type = STATIC /\ pattern[1].value = SEPARATOR)
    \/ \A i \in 1..Len(pattern) :
           /\ pattern[i].value # <<>>
           /\ \A k \in 1..Len(pattern[i].value) : pattern[i].value[k] # "/"
           /\ pattern[i].type = ANY => i = Len(pattern)

(* C7: when the matcher accepts a route, every Parameter segment of its
   pattern is aligned with a non-empty piece of the path, and no Static or
   Parameter segment lies past the end of the path. *)
C7_RequiredSegmentsGetPieces ==
    (stage \in {"matched", "extracted"} /\ Len(matches) = 1
        /\ ProperPattern(compiled)) =>
        LET pieces == split(clean(in_url))
        IN  \A i \in 1..Len(compiled) :
                /\ compiled[i].type \in {STATIC, PARAMETER} => i <= Len(pieces)
                /\ compiled[i].type = PARAMETER => ~EmptyPiece(pieces[i])

\* the per-position test
C8_PieceMatches(piece, segment) ==
    IF segment.type = STATIC THEN piece = segment.value
    ELSE EmptyPiece(piece) => segment.type \in {OPTIONAL, ANY}

(* C8: the matcher accepts a route iff the counts are compatible (equal, or
   fewer segments ending in Any, or more segments ending in Optional) and, up
   to the shorter of the two lists, each piece matches its segment: Static by
   equality, non-Static by the empty-piece rule. *)
C8_AcceptsIffCompatible ==
    (stage \in {"matched", "extracted"} /\ ProperPattern(compiled)) =>
        LET pieces == split(clean(in_url))
            np == Len(pieces)
            ns == Len(compiled)
            counts == \/ np = ns
                      \/ ns < np /\ compiled[ns].type = ANY
                      \/ ns > np /\ compiled[ns].type = OPTIONAL
            positions == \A i \in 1..Min(np, ns) :
                            C8_PieceMatches(pieces[i], compiled[i])
        IN  (Len(matches) = 1) <=> (counts /\ positions)

\* the pattern syntax, part by part
C9_HasChar(str, ch) == \E k \in 1..Len(str) : str[k] = ch

C9_IsLiteral(part)   == part # <<>> /\ part[1] \notin {":", "*"}
C9_IsParameter(part) == part # <<>> /\ part[1] = ":" /\ ~C9_HasChar(part, "?")
C9_IsOptional(part)  ==
    /\ Len(part) >= 2
    /\ part[1] = ":"
    /\ part[Len(part)] = "?"
    /\ ~C9_HasChar(SubSeq(part, 1, Len(part) - 1), "?")
C9_IsStar(part)      == part = <<"*">>

C9_WellFormed(parts) ==
    \A i \in 1..Len(parts) :
        \/ C9_IsLiteral(parts[i])
        \/ C9_IsParameter(parts[i])
        \/ C9_IsOptional(parts[i])
        \/ (C9_IsStar(parts[i]) /\ i = Len(parts))

C9_Expected(original, part) ==
    IF C9_IsStar(part) THEN Segment(original, ANY, <<"*">>)
    ELSE IF C9_IsOptional(part)
         THEN Segment(original, OPTIONAL, SubSeq(part, 2, Len(part) - 1))
    ELSE IF C9_IsParameter(part)
         THEN Segment(original, PARAMETER, SubSeq(part, 2, Len(part)))
    ELSE Segment(original, STATIC, part)

(* C9: a pattern built from '/'-separated non-empty parts, each a literal,
   :name, :name? or a final *, compiles to exactly one segment per part, in
   order: Static(literal), Parameter(name), Optional(name), Any("*"); a pattern
   that cleans to the separator compiles to the single Static segment "/";
   and every compiled pattern is non-empty. *)
C9_OneSegmentPerPart ==
    stage = "compiled" =>
        LET cleaned == clean(in_pattern)
            parts   == StringSplit(cleaned)
        IN  /\ Len(compiled) >= 1
            /\ cleaned = SEPARATOR =>
                   compiled = <<Segment(in_pattern, STATIC, SEPARATOR)>>
            /\ (cleaned # SEPARATOR /\ C9_WellFormed(parts)) =>
                   compiled = [i \in 1..Len(parts) |->
                                  C9_Expected(in_pattern, parts[i])]

C9_Witness ==
    /\ stage = "compiled"
    /\ in_pattern = <<"/", "a", "/", ":", "?">>
    /\ Len(compiled) = 2
    /\ compiled[1].type = STATIC
    /\ compiled[2].type = OPTIONAL

\* everything the activation of handleRequest for r holds
C10_Own(r) == <<phase[r], req_method[r], req_url[r], req_path[r], route_set[r],
                handlers[r], handler_index[r], status[r], log[r]>>

C10_TypeErrors(r) ==
    {i \in 1..Len(log[r]) :
        log[r][i].ev = "error_handler" /\ log[r][i].arg = "TypeError"}

C10_Alone(r) ==
    /\ \A i \in 1..Len(log[r]) : log[r][i].request = r
    /\ phase[r] = "notfound" => log[r] = <<Event("end", -1, 0, "404", r)>>
    /\ phase[r] = "fast" =>
           log[r] = <<Event("error_handler", -1, 0, "ReferenceError", r)>>
    /\ phase[r] = "chain" =>
           /\ handlers[r] =
                  middlewares \o
                  findRoute(routes, req_method[r],
                            parseUrl(req_url[r]).pathname).handlers
           /\ IsPrefix(Invoked(r), handlers[r])
           /\ handler_index[r] = Len(Invoked(r)) + Cardinality(C10_TypeErrors(r))
           /\ Len(status[r]) = Len(Invoked(r))
           /\ \A i \in C10_TypeErrors(r) :
                  Len(SelectSeq(SubSeq(log[r], 1, i),
                                LAMBDA e : e.ev = "invoke")) = Len(handlers[r])
           /\ \A i \in 1..Len(log[r]) :
                  (log[r][i].ev = "error_handler" /\ log[r][i].arg \in UserErrors)
                  => (i > 1 /\ log[r][i - 1].ev \in ErrorOrigins
                            /\ log[r][i - 1].arg = log[r][i].arg)

C10_EachAlone == \A r \in Requests : C10_Alone(r)

C10_OneAtATime ==
    \A r, q \in Requests :
        (r # q /\ C10_Own(r)' # C10_Own(r)) => C10_Own(q)' = C10_Own(q)

(* C10: with two requests in flight and their steps interleaved, each request
   observes what it would observe alone: its chain comes from its own method
   and path, its cursor counts its own invocations only, every event in its
   log is its own, and no step changes the state of both requests. *)
C10_RequestsIsolated == []C10_EachAlone /\ [][C10_OneAtATime]_vars

C10_Witness ==
    /\ phase["r1"] = "chain" /\ phase["r2"] = "chain"
    /\ handler_index["r1"] = 1
    /\ \E i \in 1..Len(log["r1"]) : log["r1"][i].ev = "error_handler"
    /\ Len(Invoked("r2")) = 2
    /\ \A i \in 1..Len(log["r2"]) : log["r2"][i].ev = "invoke"

Range(seq) == {seq[i] : i \in 1..Len(seq)}

\* the handlers recorded under path-scoped buckets
C11_Scoped == UNION {Range(base_middlewares[k]) : k \in DOMAIN base_middlewares}

\* the handlers of every registered route
C11_RouteHandlers ==
    UNION {UNION {Range(routes[m][i].handlers) : i \in 1..Len(routes[m])} :
              m \in Buckets}

\* a path-scoped handler is in no list a dispatch reads, and was never invoked
C11_ScopedNeverReached ==
    /\ C11_Scoped \cap Range(middlewares) = {}
    /\ C11_Scoped \cap C11_RouteHandlers = {}
    /\ \A r \in Requests :
           /\ C11_Scoped \cap Range(handlers[r]) = {}
           /\ \A i \in 1..Len(log[r]) : log[r][i].handler \notin C11_Scoped

\* the functions a registration step brings in, in argument order
C11_Registered == [k \in 1..(next_id' - next_id) |-> next_id + k - 1]

\* a registration step changes one of the three collections only: the global
\* list grows by the registered functions at its end, or one bucket does
C11_UseFrame ==
    /\ middlewares' # middlewares =>
           /\ middlewares' = middlewares \o C11_Registered
           /\ base_middlewares' = base_middlewares
           /\ routes' = routes
    /\ base_middlewares' # base_middlewares =>
           /\ middlewares' = middlewares
           /\ routes' = routes
           /\ \E key \in DOMAIN base_middlewares' :
                  /\ key[1] = "/"
                  /\ base_middlewares'[key] =
                         (IF key \in DOMAIN base_middlewares
                          THEN base_middlewares[key] ELSE <<>>) \o C11_Registered
                  /\ \A k \in DOMAIN base_middlewares' \ {key} :
                         k \in DOMAIN base_middlewares
                         /\ base_middlewares'[k] = base_middlewares[k]

(* C11: use(fn, ...) and use('/', ...) append the handlers to the global
   middleware list; use(path, ...) with any other path records them in the
   bucket of that path only, leaving the global list and the route table as
   they were, and no dispatch ever invokes a handler recorded that way. *)
C11_PathScopedNeverInvoked ==
    []C11_ScopedNeverReached /\ [][C11_UseFrame]_vars

C11_Witness ==
    /\ <<"/", "u">> \in DOMAIN base_middlewares
    /\ phase["r1"] = "chain"
    /\ clean(req_path["r1"]) = <<"u", "/", "4">>
    /\ Len(handlers["r1"]) = 2
    /\ Len(middlewares) = 1
    /\ Invoked("r1") = handlers["r1"]

\* the least member of a non-empty set of positions
First(S) == CHOOSE i \in S : \A j \in S : i <= j

(* C12: the lookup list of a method is its own routes in registration order
   followed by the wildcard-method routes in registration order, and of the
   routes of that list that match the path, findRoute returns the earliest: a
   route of the method before any wildcard-method route, and within a bucket
   the earlier registration. *)
C12_EarliestMatchSelected ==
    stage = "found" =>
        LET method == req_method["r1"]
            list   == Lookup(routes, method)
            M      == FullMatches(routes, method, split(clean(in_url)))
        IN  IF M = {}
            THEN route_set["r1"] = NoRoute
            ELSE /\ route_set["r1"].kind = "route"
                 /\ route_set["r1"].handlers = list[First(M)].handlers
                 /\ route_set["r1"].params =
                        exec(clean(in_url), list[First(M)].pattern)
                 /\ (\E i \in M : i <= Len(routes[method])) =>
                        \E i \in 1..Len(routes[method]) :
                            routes[method][i].handlers = route_set["r1"].handlers

\* a wildcard-method route registered first, a route of the method registered
\* after it, both matching: the route of the method is returned
C12_Witness ==
    /\ stage = "found"
    /\ req_method["r1"] = "GET"
    /\ Len(routes["GET"]) = 1 /\ Len(routes["*"]) = 1
    /\ routes["*"][1].handlers[1] < routes["GET"][1].handlers[1]
    /\ routes["*"][1].pattern # routes["GET"][1].pattern
    /\ FullMatches(routes, "GET", split(clean(in_url))) = {1, 2}
    /\ route_set["r1"].handlers = routes["GET"][1].handlers

(* C13: once a handler of a request's chain has thrown or has called the
   continuation with an error, no handler of that chain is invoked any more,
   whatever the handlers do afterwards. *)
C13_ChainHaltsAfterError ==
    \A r \in Requests :
        \A i \in 1..Len(log[r]) :
            log[r][i].ev \in {"throw", "next"} =>
                \A j \in (i + 1)..Len(log[r]) : log[r][j].ev # "invoke"

(* C14: for a pattern that does not clean to the root separator, no compiled
   segment has a value that contains '/', the Any segment of a '*' followed by
   more pattern text included. *)
C14_NoSeparatorInValues ==
    (stage = "compiled" /\ clean(in_pattern) # SEPARATOR) =>
        \A i \in 1..Len(compiled) : ~C9_HasChar(compiled[i].value, "/")

C15_Slashes(k) == [i \in 1..k |-> "/"]

C15_OnlySeparators(str) == str # <<>> /\ \A i \in 1..Len(str) : str[i] = "/"

(* C15: clean is idempotent, and findRoute gives the same outcome -- the same
   route and parameters, or no match -- for a path and for that path with
   separators added at its start and its end; a path made of separators only
   is looked up as the root path. *)
C15_NormalizationInsensitive ==
    /\ clean(clean(in_url)) = clean(in_url)
    /\ stage = "found" =>
           /\ \A a, b \in 0..MaxExtra :
                  findRoute(routes, req_method["r1"],
                            C15_Slashes(a) \o in_url \o C15_Slashes(b))
                      = route_set["r1"]
           /\ C15_OnlySeparators(in_url) =>
                  route_set["r1"] = findRoute(routes, req_method["r1"], SEPARATOR)

C15_Witness ==
    /\ stage = "found"
    /\ in_url = <<"/", "/", "u", "/">>
    /\ route_set["r1"].kind = "route"
    /\ route_set["r1"].params # {}
    /\ route_set["r1"] = findRoute(routes, req_method["r1"], <<"/", "u">>)

(* C16: on the chain path, however often and in whatever order the handlers
   call the continuation, the invocations of a request go through the
   positions of its chain in strictly increasing order, each position at most
   once; the handler at the last position is invoked without a continuation
   and every earlier one with it. *)
C16_CursorOnlyForward ==
    \A r \in Requests :
        phase[r] = "chain" =>
            LET inv == EventsOf(r, {"invoke"})
            IN  /\ \A i, j \in 1..Len(inv) : i < j => inv[i].pos < inv[j].pos
                /\ \A i \in 1..Len(inv) :
                       /\ inv[i].pos \in 0..(Len(handlers[r]) - 1)
                       /\ inv[i].handler = handlers[r][inv[i].pos + 1]
                       /\ inv[i].arg = (IF inv[i].pos = Len(handlers[r]) - 1
                                        THEN "undefined" ELSE "next")
                /\ handler_index[r] >= Len(inv)

\* the continuation called more often than there are handlers left
C16_Witness ==
    /\ phase["r1"] = "chain"
    /\ Len(handlers["r1"]) = 3
    /\ Len(EventsOf("r1", {"invoke"})) = 3
    /\ handler_index["r1"] = 4
    /\ status["r1"][2] = "running"

\* what of a request's activation a registration could reach
C17_Chain(r) == <<handlers[r], handler_index[r], route_set[r], log[r]>>

\* no step changes the chain of a request in flight, and a registration step
\* changes nothing of the request
C17_ChainKept ==
    \A r \in Requests :
        phase[r] = "chain" =>
            /\ handlers'[r] = handlers[r]
            /\ route_set'[r] = route_set[r]
            /\ <<middlewares, base_middlewares, routes>>' #
                   <<middlewares, base_middlewares, routes>>
               => C17_Chain(r)' = C17_Chain(r)

\* every invocation takes its handler from the chain as it was at dispatch
C17_InvokedFromChain ==
    \A r \in Requests :
        phase[r] = "chain" =>
            \A i \in 1..Len(log[r]) :
                log[r][i].ev = "invoke" =>
                    /\ log[r][i].pos < Len(handlers[r])
                    /\ log[r][i].handler = handlers[r][log[r][i].pos + 1]

(* C17: the effective chain of a request is fixed when its dispatch starts: a
   use() or addRoute() call made while the request is in flight changes
   neither which handlers are still to be invoked for it nor their order. *)
C17_ChainFixedAtDispatch ==
    []C17_InvokedFromChain /\ [][C17_ChainKept]_vars

\* the first handler of the request has returned, its route handler is still
\* to come, and use() has since grown the global list past the chain
C17_Witness ==
    /\ phase["r1"] = "chain"
    /\ Len(handlers["r1"]) = 2
    /\ Len(route_set["r1"].handlers) = 1
    /\ Len(middlewares) = 2
    /\ handlers["r1"][1] = middlewares[1]
    /\ handlers["r1"][2] = route_set["r1"].handlers[1]
    /\ middlewares[2] > handlers["r1"][2]
    /\ Len(Invoked("r1")) = 1
    /\ status["r1"] = <<"returned">>

====
